---- MODULE Spec2Model ----
(***************************************************************************)
(* A model of swift::World (src/src/World/World.cpp): the entity sequence, *)
(* the script mapping shared with the asset cache, the per-tick update and *)
(* the save/load of the world document; of lpp::Selection (calls, casts    *)
(* and host callables) and of AssetManager::loadResource.                  *)
(*                                                                         *)
(* The specifications, all over the same variables:                        *)
(*   Spec            - Worlds sharing scripts: construction, destruction,  *)
(*                     addEntity/removeEntity, addScript/removeScript,     *)
(*                     update                                              *)
(*   SpecAttach      - two Worlds and the scripts they share               *)
(*   SpecMapping     - SpecAttach without update: the calls that change    *)
(*                     a script mapping from outside a tick                *)
(*   SpecTick        - one World, its entities and scripts, its update     *)
(*   SpecScenario    - SpecTick with components given to the entities      *)
(*   SpecScriptError - SpecTick with script functions that fail            *)
(*   SpecPersist     - one World, its save document, save() and load()     *)
(*   SpecReload      - Worlds of one name constructed one after the other  *)
(*                     over the same save document                         *)
(*   SpecLua         - Selection calls, casts and assignments on one       *)
(*                     interpreter state                                   *)
(*   SpecAssets      - loadResource() calls on one AssetManager            *)
(*   SpecAround      - getEntitiesAround() on an entity sequence           *)
(***************************************************************************)
EXTENDS Integers, Sequences, FiniteSets, TLC

\* ------------------------------------------------------------------ bounds
NumWorlds == 2      \* World objects that can be constructed in one run
NumScripts == 2     \* script files held by the asset cache
MaxEntities == 2    \* cap on the length of a World's entity sequence

Worlds == 1..NumWorlds
\* script file names, numbered in the key order of std::map<std::string, Script*>
ScriptFiles == 1..NumScripts
\* the null World pointer
NoWorld == 0

VARIABLES
    alive,        \* alive[w]: "unborn" (not constructed), "live", "dead" (destroyed)
    entities,     \* World::entities, per World: sequence of entities
    scripts,      \* World::scripts, per World: the keys of the script mapping
    world,        \* Script::world, per script: a World or NoWorld
    deleteMe,     \* Script::deleteMe / the script's Done flag
    tick,         \* position inside World::update: [w, phase, i, n]
    startScripts, \* history: the script mapping when the running tick began
    doneScripts,  \* the local doneScripts of the running World::update
    log,          \* history: calls made by the running World::update, in order
    file,         \* the save document at "./data/saves/<name>.world"
    last,         \* history: the last save()/load() call and its result
    started,      \* history: per script, the number of start() calls made on it
    addedDone,    \* history: the scripts added to a World with Done true and
                  \* not reset by their own code since
    stack,        \* the stack of the lua_State a Selection works on
    functions,    \* FunctionsMap: per name, the callable held (or none)
    lua,          \* history: the last Selection operation and its result
    latest,       \* history: per name, the callable registered last
    released,     \* history: the callables that have been destroyed
    store,        \* AssetManager's maps: per map and file, the entry's state
    asset,        \* history: the last loadResource() call and its result
    around,       \* the last getEntitiesAround() call: inputs and result
    foreign       \* history: the scripts of the mapping whose world was not
                  \* the World updated when the running tick began

vars == <<alive, entities, scripts, world, deleteMe, tick, startScripts,
          doneScripts, log, file, last, started, addedDone,
          stack, functions, lua, latest, released, store, asset, around,
          foreign>>

\* The history of the script lifecycle, and the parts of the state no
\* operation of World touches.
lifecycle == <<started, addedDone>>
luaVars == <<stack, functions, lua, latest, released>>
assetVars == <<store, asset>>
aside == <<luaVars, assetVars, around>>
worldVars == <<alive, entities, scripts, world, deleteMe, tick, startScripts,
               doneScripts, log, file, last, lifecycle, foreign>>


\* ------------------------------------------------- entities and components
\* The component types an Entity can hold, in the key order of the
\* std::map returned by Entity::getComponents().
ComponentOrder == <<"Name", "Physical">>
ComponentTypes == {ComponentOrder[i] : i \in 1..Len(ComponentOrder)}

\* The serialized fields of a component type, in the key order of the
\* std::map<std::string, std::string> returned by serialize().
Fields(c) == IF c = "Name" THEN <<"name">> ELSE <<"position", "size">>

\* The value a field has in a newly constructed component.
DefaultValue(f) == IF f = "name" THEN "" ELSE "0"

\* A newly constructed component of type c: every field at its default.
NewComponent(c) ==
    [f \in {Fields(c)[i] : i \in 1..Len(Fields(c))} |-> DefaultValue(f)]

\* new Entity: no components.
NewEntity == [c \in {} |-> <<>>]

\* Entity::add(name): constructs a component of a known type unless the
\* entity already has one; an unknown type name creates nothing.
EntityAdd(e, c) ==
    IF c \in ComponentTypes /\ c \notin DOMAIN e
    THEN [d \in DOMAIN e \cup {c} |-> IF d = c THEN NewComponent(c) ELSE e[d]]
    ELSE e

\* World::addEntity(): a new Entity is appended to the entity sequence.
addEntity(ents) == Append(ents, NewEntity)

\* World::removeEntity(e): rejects an index past either end, otherwise
\* erases begin()+e (e >= 0) or end()+e (e < 0).
removeEntityOk(ents, e) == ~(e >= Len(ents) \/ Len(ents) + e < 0)

\* removeEntityAt that counts a negative index from begin().
removeEntityAtBegin(ents, e) ==
    LET k == IF e >= 0 THEN e + 1 ELSE 0 - e
    IN  [j \in 1..(Len(ents) - 1) |-> IF j < k THEN ents[j] ELSE ents[j + 1]]

removeEntityAt(ents, e) ==
    LET k == IF e >= 0 THEN e + 1 ELSE Len(ents) + e + 1
    IN  [j \in 1..(Len(ents) - 1) |-> IF j < k THEN ents[j] ELSE ents[j + 1]]

removeEntity(ents, e) ==
    IF removeEntityOk(ents, e) THEN removeEntityAt(ents, e) ELSE ents

\* The number of Entity objects removeEntity(e) deletes: it erases the
\* pointer from the vector and deletes nothing.
removeEntityDeletes(ents, e) == 0

\* ------------------------------------------------------ the save document
\* An XML element: its tag, its text (GetText(); "" when it has none) and
\* its child elements in document order.
Elem(tag, kids) == [tag |-> tag, text |-> "", kids |-> kids]
Var(name, text) == [tag |-> name, text |-> text, kids |-> <<>>]

\* The file at the save path: whether it exists, whether its content parses
\* as XML, and the top-level elements of the parsed document.
NoFile == [exists |-> FALSE, parses |-> FALSE, top |-> <<>>]
Garbage == [exists |-> TRUE, parses |-> FALSE, top |-> <<>>]
Doc(top) == [exists |-> TRUE, parses |-> TRUE, top |-> top]

\* XMLDocument::LoadFile(file) returns XML_SUCCESS (0) only for a file that
\* exists and parses.
LoadFileOk(f) == f.exists /\ f.parses

\* FirstChildElement(tag) over a sequence of sibling elements: the index of
\* the first one with that tag, 0 for nullptr.
FirstChildElement(sibs, tag) ==
    IF \E i \in 1..Len(sibs) : sibs[i].tag = tag
    THEN CHOOSE i \in 1..Len(sibs) :
            /\ sibs[i].tag = tag
            /\ \A j \in 1..(i - 1) : sibs[j].tag # tag
    ELSE 0

IsEntityElement(x) == x.tag = "entity"
HasComponent(e, c) == c \in DOMAIN e

\* Component::serialize(): the component's fields as name/value strings.
Serialize(c, comp) ==
    [k \in 1..Len(Fields(c)) |-> Var(Fields(c)[k], comp[Fields(c)[k]])]

\* The <entity> element save() builds for one entity: one child per
\* component, tagged with the component type, holding one child per field.
EntityRecord(e) ==
    LET present(c) == HasComponent(e, c)
        cs == SelectSeq(ComponentOrder, present)
    IN  Elem("entity", [k \in 1..Len(cs) |-> Elem(cs[k], Serialize(cs[k], e[cs[k]]))])

EntityRecords(ents) == [k \in 1..Len(ents) |-> EntityRecord(ents[k])]

\* SaveDocument that keeps the children an existing root has and appends.
SaveDocumentMerge(top, ents) ==
    IF \E i \in 1..Len(top) : top[i].tag = "world"
    THEN LET r == CHOOSE i \in 1..Len(top) :
                    top[i].tag = "world" /\ \A j \in 1..(i - 1) : top[j].tag # "world"
         IN  [top EXCEPT ![r].kids =
                 @ \o [k \in 1..Len(ents) |-> EntityRecord(ents[k])]]
    ELSE <<Elem("world", [k \in 1..Len(ents) |-> EntityRecord(ents[k])])>> \o top

\* The document save() holds when it calls SaveFile: the "world" root is
\* created first in the document when missing, else its children are
\* deleted; then one <entity> per entity is appended to the root.
SaveDocument(top, ents) ==
    LET r == FirstChildElement(top, "world")
    IN  IF r = 0
        THEN <<Elem("world", EntityRecords(ents))>> \o top
        ELSE [top EXCEPT ![r] = Elem("world", EntityRecords(ents))]

\* save that builds a new document when the existing file does not load.
saveCreates(f, ents, writeOk) ==
    [ret |-> TRUE,
     file |-> IF writeOk
              THEN Doc(SaveDocument(IF LoadFileOk(f) THEN f.top ELSE <<>>, ents))
              ELSE f]

\* World::save(): [ret, file]. Fails when the existing file does not load;
\* otherwise writes the rebuilt document (the write itself succeeds only
\* when writeOk) and returns true without looking at SaveFile's result.
save(f, ents, writeOk) ==
    IF ~LoadFileOk(f)
    THEN [ret |-> FALSE, file |-> f]
    ELSE [ret |-> TRUE,
          file |-> IF writeOk THEN Doc(SaveDocument(f.top, ents)) ELSE f]

\* The variables map load() builds for one component element: an element
\* with a non-empty name and text is emplaced, so the first one of a name
\* is kept.
Variables(c) ==
    LET named(n) == {i \in 1..Len(c.kids) : c.kids[i].tag = n /\ c.kids[i].text # ""}
        first(n) == CHOOSE i \in named(n) : \A j \in named(n) : i <= j
    IN  [n \in {c.kids[i].tag : i \in {j \in 1..Len(c.kids) : c.kids[j].text # ""}}
            |-> c.kids[first(n)].text]

\* Component::unserialize(variables): every field named in the map takes
\* its value; other names are ignored, other fields keep their value.
Unserialize(comp, variables) ==
    [f \in DOMAIN comp |-> IF f \in DOMAIN variables THEN variables[f] ELSE comp[f]]

\* One iteration of load()'s component loop, when it runs to its end.
LoadComponent(e, c) ==
    LET e1 == EntityAdd(e, c.tag)
    IN  IF HasComponent(e1, c.tag)
        THEN [e1 EXCEPT ![c.tag] = Unserialize(@, Variables(c))]
        ELSE e1

\* The places where load() has undefined behaviour on a component element:
\* std::string(GetText()) on a variable element without text (GetText()
\* is null), and entity->get(name)->unserialize() when add(name) created
\* nothing (get(name) is null).
NullText(c) == \E i \in 1..Len(c.kids) : c.kids[i].text = ""
NullComponent(e, c) == ~HasComponent(EntityAdd(e, c.tag), c.tag)
Undefined(e, c) == NullText(c) \/ NullComponent(e, c)

\* load()'s component loop over one <entity>: [e, fault]. ub is what the
\* build does at undefined behaviour: "fault" (the process dies there) or
\* "benign" (the null is read as empty / the call does nothing).
RECURSIVE LoadEntity(_, _, _)
LoadEntity(e, comps, ub) ==
    IF comps = <<>>
    THEN [e |-> e, fault |-> FALSE]
    ELSE IF Undefined(e, Head(comps)) /\ ub = "fault"
    THEN [e |-> EntityAdd(e, Head(comps).tag), fault |-> TRUE]
    ELSE LoadEntity(LoadComponent(e, Head(comps)), Tail(comps), ub)

\* load()'s entity loop: addEntity() per <entity>, then its components.
RECURSIVE LoadEntities(_, _, _)
LoadEntities(ents, recs, ub) ==
    IF recs = <<>>
    THEN [ret |-> "true", ents |-> ents]
    ELSE LET r == LoadEntity(NewEntity, Head(recs).kids, ub)
         IN  IF r.fault
             THEN [ret |-> "fault", ents |-> Append(ents, r.e)]
             ELSE LoadEntities(Append(ents, r.e), Tail(recs), ub)

\* load that calls addEntity() before it looks at the document.
loadAddsFirst(f, ents, ub) ==
    IF ~(f.exists /\ f.parses)
    THEN [ret |-> "false", ents |-> Append(ents, NewEntity)]
    ELSE IF \A i \in 1..Len(f.top) : f.top[i].tag # "world"
    THEN [ret |-> "false", ents |-> Append(ents, NewEntity)]
    ELSE LoadEntities(ents,
            SelectSeq(f.top[CHOOSE i \in 1..Len(f.top) : f.top[i].tag = "world"].kids,
                      IsEntityElement), ub)

\* load that clears the entity sequence before it reads the records.
loadReplaces(f, ents, ub) ==
    IF ~LoadFileOk(f)
    THEN [ret |-> "false", ents |-> ents]
    ELSE LET r == FirstChildElement(f.top, "world")
         IN  IF r = 0
             THEN [ret |-> "false", ents |-> ents]
             ELSE LoadEntities(<<>>, SelectSeq(f.top[r].kids, IsEntityElement), ub)

\* World::load(): [ret, ents]; ret is "false", "true", or "fault" when the
\* call never returns.
load(f, ents, ub) ==
    IF ~LoadFileOk(f)
    THEN [ret |-> "false", ents |-> ents]
    ELSE LET r == FirstChildElement(f.top, "world")
         IN  IF r = 0
             THEN [ret |-> "false", ents |-> ents]
             ELSE LoadEntities(ents, SelectSeq(f.top[r].kids, IsEntityElement), ub)

\* The number of entities load() would add from file f.
EntityRecordCount(f) ==
    LET r == FirstChildElement(f.top, "world")
    IN  IF ~LoadFileOk(f) \/ r = 0 THEN 0
        ELSE Len(SelectSeq(f.top[r].kids, IsEntityElement))

\* ---------------------------------------------------- scripts and the tick
\* World::addScript(f): inserts f unless the mapping has it.
addScript(m, f) == IF f \notin m THEN m \cup {f} ELSE m

\* addScriptWorld that attaches the script whether or not it is inserted.
addScriptWorldAlways(m, f, w, ptr) == w

\* Script::setWorld as addScript calls it: only on insertion.
addScriptWorld(m, f, w, ptr) == IF f \notin m THEN w ELSE ptr

\* The start() calls a script has received once it is constructed: Start
\* is called during Script construction.
StartsAtConstruction == 1

\* addScript that calls start() on the script it inserts.
addScriptStarts(m, f, n) == IF f \notin m THEN n + 1 ELSE n

\* The start() calls made on script f after addScript: it makes none.
addScriptStart(m, f, n) == n

\* addScript that clears the Done flag of the script it inserts.
addScriptDoneReset(m, f, d) == IF f \notin m THEN FALSE ELSE d

\* The Done flag of script f after addScript: it is not touched.
addScriptDone(m, f, d) == d

\* What addScript(f) and removeScript(f) return.
addScriptRet(m, f) == f \notin m
removeScriptRet(m, f) == f \in m

\* World::removeScript(f): erases f from the mapping when present.
removeScript(m, f) == IF f \in m THEN m \ {f} ELSE m

\* The script's world pointer after removeScript: the code does not touch it.
removeScriptWorld(m, f, ptr) == ptr

\* The world pointer of script s after ~World of w ran its loop over w's
\* script mapping m.
DestructorWorld(m, s, ptr) == IF s \in m THEN NoWorld ELSE ptr

\* SystemCalls with the physical system run before the movement system.
SystemCallsSwapped(i) == <<[kind |-> "physical", id |-> i], [kind |-> "move", id |-> i],
                           [kind |-> "draw", id |-> i]>>

\* The calls World::update makes for the entity at index i, in order.
Call(kind, id) == [kind |-> kind, id |-> id]
SystemCalls(i) == <<Call("move", i), Call("physical", i), Call("draw", i)>>

\* The script the range-for over the mapping visits after key k (0 before
\* the first): the least key above k, 0 at the end.
NextScript(m, k) ==
    IF \E s \in m : s > k
    THEN CHOOSE s \in m : s > k /\ \A r \in m : r > k => s <= r
    ELSE 0

\* The world pointer of a script in w's mapping when its update() is
\* called: set to w unless it already is w.
\* a variant of the script loop that never re-attaches the script
UpdateWorldKeeps(w, ptr) == ptr

UpdateWorld(w, ptr) == IF ptr # w THEN w ELSE ptr

\* PushDone that pushes every updated script, whatever toDelete() returned.
PushDoneAlways(done, s, d) == Append(done, s)

\* doneScripts after the script s was updated and toDelete() returned d.
PushDone(done, s, d) == IF d THEN Append(done, s) ELSE done

\* tick: the World being updated, the loop update is in, the loop position
\* (entity index, script key, index into doneScripts) and n, the number of
\* entities the entity loop ranges over.
IdleTick == [w |-> NoWorld, phase |-> "idle", i |-> 0, n |-> 0]
Idle == tick.phase = "idle"

\* Where World::update of w goes once the entity loop is over, and once the
\* script loop is over.
AfterEntities(w, n) ==
    IF scripts[w] # {}
    THEN [w |-> w, phase |-> "scripts", i |-> NextScript(scripts[w], 0), n |-> n]
    ELSE [w |-> w, phase |-> "done", i |-> 0, n |-> n]

AfterScripts(w, n, done) ==
    IF done # <<>>
    THEN [w |-> w, phase |-> "remove", i |-> 1, n |-> n]
    ELSE [w |-> w, phase |-> "done", i |-> 0, n |-> n]

\* last: the save()/load()/removeEntity() call made last, when nothing was
\* called since:
\* the World, the result, whether the medium accepted the write (writeOk),
\* the World's entities when the call was made (ents), what the file was
\* when the call was made (pre: whether it loaded, whether it had a world
\* root, how many entity records the root held, whether it equals the file
\* after the call), and the entities of the save() call that came right
\* before and whether it wrote its document (saved; some is FALSE when the
\* preceding call was no save()), the length of the entity sequence when
\* the call was made (size) and the number of Entity objects the call
\* deleted (deleted).
NoPre == [ok |-> FALSE, root |-> FALSE, records |-> 0, same |-> TRUE]
NoSaved == [some |-> FALSE, wrote |-> FALSE, ents |-> <<>>]
NoCall == [op |-> "none", w |-> NoWorld, ret |-> "none", writeOk |-> FALSE,
           ents |-> <<>>, pre |-> NoPre, saved |-> NoSaved,
           size |-> 0, deleted |-> 0]

\* A load() that faulted ended the process.
Running == last.ret # "fault"

\* World::World: the next World object is constructed, empty.
Construct(w) ==
    /\ Idle
    /\ alive[w] = "unborn"
    /\ \A v \in Worlds : v < w => alive[v] # "unborn"
    /\ alive' = [alive EXCEPT ![w] = "live"]
    /\ UNCHANGED <<lifecycle, aside>>
    /\ UNCHANGED <<entities, scripts, world, deleteMe, tick, startScripts,
                   doneScripts, log, file, last>>
    /\ UNCHANGED foreign

\* World::~World: save(), detach every script of the mapping, delete the
\* entities; the object and its members are gone afterwards.
Destroy(w) ==
    /\ Idle
    /\ Running
    /\ alive[w] = "live"
    /\ \E writeOk \in BOOLEAN : file' = save(file, entities[w], writeOk).file
    /\ world' = [s \in ScriptFiles |-> DestructorWorld(scripts[w], s, world[s])]
    /\ entities' = [entities EXCEPT ![w] = <<>>]
    /\ scripts' = [scripts EXCEPT ![w] = {}]
    /\ alive' = [alive EXCEPT ![w] = "dead"]
    /\ UNCHANGED <<lifecycle, aside>>
    /\ UNCHANGED <<deleteMe, tick, startScripts, doneScripts, log, last>>
    /\ UNCHANGED foreign

AddEntity(w) ==
    /\ Idle
    /\ Running
    /\ alive[w] = "live"
    /\ Len(entities[w]) < MaxEntities
    /\ entities' = [entities EXCEPT ![w] = addEntity(@)]
    /\ last' = NoCall
    /\ UNCHANGED <<lifecycle, aside>>
    /\ UNCHANGED <<alive, scripts, world, deleteMe, tick, startScripts,
                   doneScripts, log, file>>
    /\ UNCHANGED foreign

RemoveEntity(w, e) ==
    /\ Idle
    /\ Running
    /\ alive[w] = "live"
    /\ entities' = [entities EXCEPT ![w] = removeEntity(@, e)]
    /\ last' = [NoCall EXCEPT !.op = "removeEntity", !.w = w,
                              !.ret = IF removeEntityOk(entities[w], e)
                                      THEN "true" ELSE "false",
                              !.size = Len(entities[w]),
                              !.deleted = removeEntityDeletes(entities[w], e)]
    /\ UNCHANGED <<lifecycle, aside>>
    /\ UNCHANGED <<alive, scripts, world, deleteMe, tick, startScripts,
                   doneScripts, log, file>>
    /\ UNCHANGED foreign

AddScript(w, f) ==
    /\ Idle
    /\ alive[w] = "live"
    /\ scripts' = [scripts EXCEPT ![w] = addScript(@, f)]
    /\ world' = [world EXCEPT ![f] = addScriptWorld(scripts[w], f, w, @)]
    /\ started' = [started EXCEPT ![f] = addScriptStart(scripts[w], f, @)]
    /\ deleteMe' = [deleteMe EXCEPT ![f] = addScriptDone(scripts[w], f, @)]
    /\ addedDone' = IF f \notin scripts[w] /\ deleteMe[f]
                    THEN addedDone \cup {f}
                    ELSE addedDone
    /\ UNCHANGED aside
    /\ last' = NoCall
    /\ UNCHANGED <<alive, entities, tick, startScripts,
                   doneScripts, log, file>>
    /\ UNCHANGED foreign

RemoveScript(w, f) ==
    /\ Idle
    /\ alive[w] = "live"
    /\ scripts' = [scripts EXCEPT ![w] = removeScript(@, f)]
    /\ world' = [world EXCEPT ![f] = removeScriptWorld(scripts[w], f, @)]
    /\ UNCHANGED <<lifecycle, aside>>
    /\ last' = NoCall
    /\ UNCHANGED <<alive, entities, deleteMe, tick, startScripts,
                   doneScripts, log, file>>
    /\ UNCHANGED foreign

\* World::update(dt) is entered: the entity loop starts at the first entity.
UpdateBegin(w) ==
    /\ Idle
    /\ alive[w] = "live"
    /\ startScripts' = scripts[w]
    /\ doneScripts' = <<>>
    /\ log' = <<>>
    /\ tick' = IF entities[w] # <<>>
               THEN [w |-> w, phase |-> "entities", i |-> 1, n |-> Len(entities[w])]
               ELSE AfterEntities(w, 0)
    /\ UNCHANGED <<lifecycle, aside>>
    /\ last' = NoCall
    /\ UNCHANGED <<alive, entities, scripts, world, deleteMe, file>>
    /\ foreign' = {s \in scripts[w] : world[s] # w}

\* UpdateEntity whose loop stops after the first entity.
UpdateEntityOnce ==
    /\ tick.phase = "entities"
    /\ log' = log \o <<[kind |-> "move", id |-> tick.i],
                       [kind |-> "physical", id |-> tick.i],
                       [kind |-> "draw", id |-> tick.i]>>
    /\ tick' = IF scripts[tick.w] # {}
               THEN [tick EXCEPT !.phase = "scripts",
                                 !.i = CHOOSE s \in scripts[tick.w] :
                                          \A r \in scripts[tick.w] : s <= r]
               ELSE [tick EXCEPT !.phase = "done", !.i = 0]
    /\ UNCHANGED <<lifecycle, aside>>
    /\ UNCHANGED <<alive, entities, scripts, world, deleteMe, startScripts,
                   doneScripts, file, last>>
    /\ UNCHANGED foreign

\* One iteration of the entity loop: the three systems update entity i.
UpdateEntity ==
    /\ tick.phase = "entities"
    /\ log' = log \o SystemCalls(tick.i)
    /\ tick' = IF tick.i < tick.n
               THEN [tick EXCEPT !.i = @ + 1]
               ELSE AfterEntities(tick.w, tick.n)
    /\ UNCHANGED <<lifecycle, aside>>
    /\ UNCHANGED <<alive, entities, scripts, world, deleteMe, startScripts,
                   doneScripts, file, last>>
    /\ UNCHANGED foreign

\* Script::update() followed by Script::toDelete(): the script code leaves
\* its Done flag at d and may have called newEntity() on its world (create).
ScriptUpdate(s, d, create) ==
    /\ deleteMe' = [deleteMe EXCEPT ![s] = d]
    /\ addedDone' = IF d THEN addedDone ELSE addedDone \ {s}
    /\ entities' = IF create /\ Len(entities[tick.w]) < MaxEntities
                   THEN [entities EXCEPT ![tick.w] = addEntity(@)]
                   ELSE entities

\* One iteration of the script loop: attach the script to this World if
\* its pointer is another one, update it, push it when it is done.
UpdateScript ==
    /\ tick.phase = "scripts"
    /\ LET s == tick.i
       IN  /\ world' = [world EXCEPT ![s] = UpdateWorld(tick.w, @)]
           /\ \E d \in BOOLEAN, create \in BOOLEAN :
                /\ ScriptUpdate(s, d, create)
                /\ doneScripts' = PushDone(doneScripts, s, d)
                /\ log' = Append(log, Call("script", s))
                /\ tick' = IF NextScript(scripts[tick.w], s) # 0
                           THEN [tick EXCEPT !.i = NextScript(scripts[tick.w], s)]
                           ELSE AfterScripts(tick.w, tick.n, doneScripts')
    /\ UNCHANGED <<started, aside>>
    /\ UNCHANGED <<alive, scripts, startScripts, file, last>>
    /\ UNCHANGED foreign

\* UpdateRemove that also erases the last entity of the World.
UpdateRemoveErases ==
    /\ tick.phase = "remove"
    /\ scripts' = [scripts EXCEPT ![tick.w] = @ \ {doneScripts[tick.i]}]
    /\ entities' = [entities EXCEPT ![tick.w] =
                        IF @ = <<>> THEN @ ELSE SubSeq(@, 1, Len(@) - 1)]
    /\ log' = Append(log, [kind |-> "remove", id |-> doneScripts[tick.i]])
    /\ tick' = IF tick.i < Len(doneScripts)
               THEN [tick EXCEPT !.i = @ + 1]
               ELSE [tick EXCEPT !.phase = "done", !.i = 0]
    /\ UNCHANGED <<alive, world, deleteMe, startScripts, doneScripts, file, last,
                   started, addedDone, stack, functions, lua, latest, released,
                   store, asset, around>>
    /\ UNCHANGED foreign

\* One iteration of the removal loop: removeScript on a done script.
UpdateRemove ==
    /\ tick.phase = "remove"
    /\ LET s == doneScripts[tick.i]
       IN  /\ scripts' = [scripts EXCEPT ![tick.w] = removeScript(@, s)]
           /\ world' = [world EXCEPT ![s] = removeScriptWorld(scripts[tick.w], s, @)]
           /\ log' = Append(log, Call("remove", s))
    /\ tick' = IF tick.i < Len(doneScripts)
               THEN [tick EXCEPT !.i = @ + 1]
               ELSE [tick EXCEPT !.phase = "done", !.i = 0]
    /\ UNCHANGED <<lifecycle, aside>>
    /\ UNCHANGED <<alive, entities, deleteMe, startScripts, doneScripts,
                   file, last>>
    /\ UNCHANGED foreign

\* World::update returns.
UpdateEnd ==
    /\ tick.phase = "done"
    /\ tick' = IdleTick
    /\ startScripts' = {}
    /\ doneScripts' = <<>>
    /\ log' = <<>>
    /\ UNCHANGED <<lifecycle, aside>>
    /\ UNCHANGED <<alive, entities, scripts, world, deleteMe, file, last>>
    /\ foreign' = {}

\* ------------------------------------------------------- AssetManager
\* The folder markers loadResource looks for in a path, in the order of its
\* if chain, and the maps of the store.
Markers == <<"/textures/", "/skeletons/", "/sounds/", "/music/", "/fonts/",
             "/scripts/", ".txt">>
AssetMaps == {"textures", "soundBuffers", "music", "fonts", "scripts"}

\* A resource path is the set of markers its path contains.
ResourceFiles ==
    {{"/textures/"}, {"/skeletons/"}, {"/sounds/"}, {"/music/"}, {"/fonts/"},
     {"/scripts/"}, {".txt"}, {},
     {"/textures/", "/sounds/"}, {"/scripts/", ".txt"}, {"/music/", "/skeletons/"}}

\* The branch of the if chain taken for a path: the first marker found,
\* "" for the final else.
Branch(path) ==
    IF \E i \in 1..Len(Markers) : Markers[i] \in path
    THEN Markers[CHOOSE i \in 1..Len(Markers) :
                    Markers[i] \in path /\ \A j \in 1..(i - 1) : Markers[j] \notin path]
    ELSE ""

\* The map a branch stores into ("" when it stores nothing).
MapOf(branch) ==
    CASE branch = "/textures/" -> "textures"
      [] branch = "/sounds/" -> "soundBuffers"
      [] branch = "/music/" -> "music"
      [] branch = "/fonts/" -> "fonts"
      [] branch = "/scripts/" -> "scripts"
      [] OTHER -> ""

\* An entry of a map: "none" (no entry for the key), "empty" (constructed
\* in place, nothing loaded into it), "loaded".
NoAssets == [m \in AssetMaps |-> [f \in ResourceFiles |-> "none"]]
NoLoad == [op |-> "none", file |-> {}, ret |-> TRUE]

\* map.emplace(file): constructs an entry unless the key has one.
EmplaceAsset(entry) == IF entry = "none" THEN "empty" ELSE entry

\* loadResource that leaves the entry in the map when loading fails.
loadResourceKeeps(st, path, ok) ==
    IF Branch(path) \in {"/textures/", "/sounds/", "/music/", "/fonts/", "/scripts/"}
    THEN [ret |-> ok,
          store |-> [st EXCEPT ![MapOf(Branch(path))][path] =
                        IF ok THEN "loaded" ELSE IF @ = "none" THEN "empty" ELSE @]]
    ELSE [ret |-> Branch(path) \in {"/skeletons/", ".txt"}, store |-> st]

\* AssetManager::loadResource(path): [ret, store]. ok: whether the file
\* loads (loadFromFile / openFromFile returns true).
loadResource(st, path, ok) ==
    LET m == MapOf(Branch(path))
    IN  IF m # ""
        THEN LET emplaced == [st EXCEPT ![m][path] = EmplaceAsset(@)]
             IN  IF ~ok
                 THEN [ret |-> FALSE, store |-> [emplaced EXCEPT ![m][path] = "none"]]
                 ELSE [ret |-> TRUE, store |-> [emplaced EXCEPT ![m][path] = "loaded"]]
        ELSE IF Branch(path) \in {"/skeletons/", ".txt"}
        THEN [ret |-> TRUE, store |-> st]
        ELSE [ret |-> FALSE, store |-> st]

LoadResource(path, ok) ==
    /\ LET r == loadResource(store, path, ok)
       IN  /\ store' = r.store
           /\ asset' = [op |-> "load", file |-> path, ret |-> r.ret]
    /\ UNCHANGED <<worldVars, luaVars, around>>

\* ------------------------------------------------- getEntitiesAround
GridMax == 2      \* the world is GridMax x GridMax; coordinates are -1..GridMax

Coordinates == (0 - 1)..GridMax
\* World::size of the World queried.
WorldSize == [x |-> GridMax, y |-> GridMax]
Point(x, y) == [x |-> x, y |-> y]

\* The entities of the World queried, as far as the query looks at them:
\* an identity, whether the entity has a Physical component, its position.
AroundEntity(id, physical, position) ==
    [id |-> id, physical |-> physical, position |-> position]

NoQuery == [ents |-> <<>>, pos |-> Point(0, 0), radius |-> 0,
            result |-> <<>>, after |-> <<>>, called |-> FALSE]

\* pos is outside of the world rectangle.
Outside(pos, size) == ~(0 <= pos.x /\ pos.x < size.x /\ 0 <= pos.y /\ pos.y < size.y)

\* World::distance(one, two) <= radius: the square root of the sum of the
\* squared differences is at most radius; for radius > 0 that is the sum
\* being at most radius squared.
DistanceSquared(one, two) ==
    (two.x - one.x) * (two.x - one.x) + (two.y - one.y) * (two.y - one.y)
DistanceWithin(one, two, radius) == DistanceSquared(one, two) <= radius * radius

\* AroundLoop whose comparison is strict.
AroundLoopStrict(ents, pos, radius, around0) ==
    around0 \o SelectSeq(ents, LAMBDA e : e.physical /\
        (e.position.x - pos.x) * (e.position.x - pos.x)
        + (e.position.y - pos.y) * (e.position.y - pos.y) < radius * radius)

\* The loop of getEntitiesAround over the entities left to visit.
RECURSIVE AroundLoop(_, _, _, _)
AroundLoop(ents, pos, radius, around0) ==
    IF ents = <<>>
    THEN around0
    ELSE AroundLoop(Tail(ents), pos, radius,
            IF Head(ents).physical /\ DistanceWithin(Head(ents).position, pos, radius)
            THEN Append(around0, Head(ents))
            ELSE around0)

\* World::getEntitiesAround(pos, radius): [around, ents].
getEntitiesAround(ents, size, pos, radius) ==
    IF Outside(pos, size) \/ radius <= 0
    THEN [around |-> <<>>, ents |-> ents]
    ELSE [around |-> AroundLoop(ents, pos, radius, <<>>), ents |-> ents]

\* The query is made once on the entity sequence of the run.
GetEntitiesAround(pos, radius) ==
    /\ ~around.called
    /\ LET r == getEntitiesAround(around.ents, WorldSize, pos, radius)
       IN  around' = [ents |-> around.ents, pos |-> pos, radius |-> radius,
                      result |-> r.around, after |-> r.ents, called |-> TRUE]
    /\ UNCHANGED <<worldVars, luaVars, assetVars>>

\* ---------------------------------------------------- lpp::Selection
MaxStack == 4        \* cap on the height of the interpreter stack
MaxRets == 2         \* cap on the number of values a script function returns
MaxCallables == 3    \* cap on the number of host callables constructed

\* The global names Selections are made for, and the values on the stack.
FunctionNames == {"f", "g"}
LuaValues == {"a", "b"}
\* The value lua_pcall leaves for a failed call: the error text.
ErrorText == "error"
\* No entry in the FunctionsMap / no callable constructed yet.
NoCallable == 0

\* The sequences over S of length 0..n.
UpTo(S, n) == UNION {[1..k -> S] : k \in 0..n}

\* The Selection a call returns when the stack has height top afterwards:
\* unnamed with index 0 when lua_gettop is 0, else named "<name> return"
\* with index -lua_gettop.
ReturnSelection(name, top) ==
    IF top = 0
    THEN [name |-> "", index |-> 0]
    ELSE [name |-> name \o " return", index |-> 0 - top]

\* What luaL_error does when Selection::operator() calls it, outside any
\* protected call: the interpreter has no error handler to jump to, so it
\* runs the panic function and, when that returns, aborts the process; a
\* panic function that throws leaves through the host's frames instead.
RaiseError(panic) == IF panic = "throws" THEN "thrown" ELSE "aborted"

\* Selection::operator() on the function called name: [stack, sel, outcome].
\* lua_pcall replaces the function and its arguments by the values
\* returned (ok) or by the error text.
SelectionCall(stk, name, ok, rets, panic) ==
    IF ok
    THEN [stack |-> stk \o rets,
          sel |-> ReturnSelection(name, Len(stk \o rets)),
          outcome |-> "returned"]
    ELSE [stack |-> stk \o <<ErrorText, ErrorText>>,
          sel |-> [name |-> "", index |-> 0],
          outcome |-> RaiseError(panic)]

\* The stack slot a Selection's index addresses (0: none / below the stack).
Addressed(stk, sel) ==
    IF sel.index # 0 /\ Len(stk) + sel.index + 1 >= 1
    THEN Len(stk) + sel.index + 1
    ELSE 0

\* FunctionsMap::emplace(name, callable): inserts only when the map has no
\* entry for name; otherwise the map is left as it is.
Emplace(fm, name, c) == IF fm[name] = NoCallable THEN [fm EXCEPT ![name] = c] ELSE fm

\* The callables destroyed by an assignment of callable c to name: when
\* emplace does not insert, the temporary unique_ptr deletes c.
EmplaceReleases(fm, name, c) == IF fm[name] = NoCallable THEN {} ELSE {c}

NoSelection == [name |-> "", index |-> 0]
NoLua == [op |-> "none", name |-> "", ok |-> TRUE, rets |-> <<>>,
          sel |-> NoSelection, outcome |-> "returned", got |-> ""]
LuaRunning == lua.outcome # "aborted"

\* Selection(name)(): the script function is called; it returns rets or
\* fails with a runtime error.
LuaCall(name, ok, rets, panic) ==
    /\ LuaRunning
    /\ Len(stack) + MaxRets <= MaxStack
    /\ LET r == SelectionCall(stack, name, ok, rets, panic)
       IN  /\ stack' = r.stack
           /\ lua' = [op |-> "call", name |-> name, ok |-> ok,
                      rets |-> IF ok THEN rets ELSE <<>>,
                      sel |-> r.sel, outcome |-> r.outcome, got |-> ""]
    /\ UNCHANGED <<functions, latest, released>>
    /\ UNCHANGED <<worldVars, assetVars, around>>

\* Selection::operator T on the Selection returned last: reads the global
\* (index 0) or the slot at the index, then pops one value.
LuaCast ==
    /\ LuaRunning
    /\ lua.op = "call"
    /\ lua.outcome = "returned"
    /\ Addressed(stack, lua.sel) # 0
    /\ stack' = SubSeq(stack, 1, Len(stack) - 1)
    /\ lua' = [lua EXCEPT !.op = "cast", !.got = stack[Addressed(stack, lua.sel)]]
    /\ UNCHANGED <<functions, latest, released>>
    /\ UNCHANGED <<worldVars, assetVars, around>>

\* Selection(name) = f: a CppFunction is constructed for the host callable
\* and emplaced into the FunctionsMap under name.
LuaAssign(name) ==
    /\ LuaRunning
    /\ Cardinality(released) + Cardinality({n \in FunctionNames : functions[n] # NoCallable})
            < MaxCallables
    /\ LET c == 1 + Cardinality(released)
                  + Cardinality({n \in FunctionNames : functions[n] # NoCallable})
       IN  /\ functions' = Emplace(functions, name, c)
           /\ released' = released \cup EmplaceReleases(functions, name, c)
           /\ latest' = [latest EXCEPT ![name] = c]
           /\ lua' = [NoLua EXCEPT !.op = "assign", !.name = name]
    /\ UNCHANGED stack
    /\ UNCHANGED <<worldVars, assetVars, around>>

\* An interpreter state with an empty stack and no host callables; no World.
InitLua ==
    /\ alive = [w \in Worlds |-> "unborn"]
    /\ entities = [w \in Worlds |-> <<>>]
    /\ scripts = [w \in Worlds |-> {}]
    /\ world = [s \in ScriptFiles |-> NoWorld]
    /\ deleteMe = [s \in ScriptFiles |-> FALSE]
    /\ tick = IdleTick
    /\ startScripts = {}
    /\ doneScripts = <<>>
    /\ log = <<>>
    /\ file = NoFile
    /\ last = NoCall
    /\ started = [s \in ScriptFiles |-> StartsAtConstruction]
    /\ addedDone = {}
    /\ stack = <<>>
    /\ functions = [n \in FunctionNames |-> NoCallable]
    /\ lua = NoLua
    /\ latest = [n \in FunctionNames |-> NoCallable]
    /\ released = {}
    /\ store = NoAssets
    /\ asset = NoLoad
    /\ around = NoQuery
    /\ foreign = {}

NextLua ==
    \/ \E name \in FunctionNames, ok \in BOOLEAN, rets \in UpTo(LuaValues, MaxRets),
          panic \in {"returns", "throws"} : LuaCall(name, ok, rets, panic)
    \/ LuaCast
    \/ \E name \in FunctionNames : LuaAssign(name)

SpecLua == InitLua /\ [][NextLua]_vars

\* ------------------------------------------------------- specification Spec
\* The files a run over Worlds and scripts starts with: no save file, or a
\* save document with an empty world root.
InitFiles == {NoFile, Doc(<<Elem("world", <<>>)>>)}

Init ==
    /\ alive = [w \in Worlds |-> "unborn"]
    /\ entities = [w \in Worlds |-> <<>>]
    /\ scripts = [w \in Worlds |-> {}]
    /\ world = [s \in ScriptFiles |-> NoWorld]
    /\ deleteMe = [s \in ScriptFiles |-> FALSE]
    /\ tick = IdleTick
    /\ startScripts = {}
    /\ doneScripts = <<>>
    /\ log = <<>>
    /\ file \in InitFiles
    /\ last = NoCall
    /\ started = [s \in ScriptFiles |-> StartsAtConstruction]
    /\ addedDone = {}
    /\ stack = <<>>
    /\ functions = [n \in FunctionNames |-> NoCallable]
    /\ lua = NoLua
    /\ latest = [n \in FunctionNames |-> NoCallable]
    /\ released = {}
    /\ store = NoAssets
    /\ asset = NoLoad
    /\ around = NoQuery
    /\ foreign = {}

Next ==
    \/ \E w \in Worlds : Construct(w)
    \/ \E w \in Worlds : Destroy(w)
    \/ \E w \in Worlds : AddEntity(w)
    \/ \E w \in Worlds, e \in (0 - MaxEntities)..(MaxEntities - 1) : RemoveEntity(w, e)
    \/ \E w \in Worlds, f \in ScriptFiles : AddScript(w, f)
    \/ \E w \in Worlds, f \in ScriptFiles : RemoveScript(w, f)
    \/ \E w \in Worlds : UpdateBegin(w)
    \/ UpdateEntity
    \/ UpdateScript
    \/ UpdateRemove
    \/ UpdateEnd

Spec == Init /\ [][Next]_vars

\* ------------------------------------------------ specification SpecPersist
\* The values the host gives a field (setName, setPosition, setSize).
FieldValues(f) == IF f = "name" THEN {"", "n"} ELSE {"0"}

\* Entity::add(c) on the entity at index i (1-based) of World w.
AddComponent(w, i, c) ==
    /\ Idle
    /\ Running
    /\ alive[w] = "live"
    /\ i \in 1..Len(entities[w])
    /\ ~HasComponent(entities[w][i], c)
    /\ entities' = [entities EXCEPT ![w][i] = EntityAdd(@, c)]
    /\ last' = NoCall
    /\ UNCHANGED <<lifecycle, aside>>
    /\ UNCHANGED <<alive, scripts, world, deleteMe, tick, startScripts,
                   doneScripts, log, file>>
    /\ UNCHANGED foreign

\* A field of a component of entity i of World w is assigned.
SetField(w, i, c, f, v) ==
    /\ Idle
    /\ Running
    /\ alive[w] = "live"
    /\ i \in 1..Len(entities[w])
    /\ HasComponent(entities[w][i], c)
    /\ f \in DOMAIN entities[w][i][c]
    /\ v \in FieldValues(f)
    /\ v # entities[w][i][c][f]
    /\ entities' = [entities EXCEPT ![w][i][c][f] = v]
    /\ last' = NoCall
    /\ UNCHANGED <<lifecycle, aside>>
    /\ UNCHANGED <<alive, scripts, world, deleteMe, tick, startScripts,
                   doneScripts, log, file>>
    /\ UNCHANGED foreign

\* What a call records of the file it found (f) and the file it left (g).
Pre(f, g) ==
    [ok |-> LoadFileOk(f),
     root |-> LoadFileOk(f) /\ FirstChildElement(f.top, "world") # 0,
     records |-> EntityRecordCount(f),
     same |-> f = g]

\* World::save() is called on w; the medium accepts the write or not.
Save(w) ==
    /\ Idle
    /\ Running
    /\ alive[w] = "live"
    /\ \E writeOk \in BOOLEAN :
        LET r == save(file, entities[w], writeOk)
        IN  /\ file' = r.file
            /\ last' = [op |-> "save", w |-> w,
                        ret |-> IF r.ret THEN "true" ELSE "false",
                        writeOk |-> writeOk,
                        ents |-> entities[w], pre |-> Pre(file, r.file),
                        saved |-> IF last.op = "save"
                                  THEN [some |-> TRUE,
                                        wrote |-> last.ret = "true" /\ last.writeOk,
                                        ents |-> last.ents]
                                  ELSE NoSaved,
                        size |-> Len(entities[w]), deleted |-> 0]
    /\ UNCHANGED <<lifecycle, aside>>
    /\ UNCHANGED <<alive, entities, scripts, world, deleteMe, tick,
                   startScripts, doneScripts, log>>
    /\ UNCHANGED foreign

\* World::load() is called on w.
Load(w) ==
    /\ Idle
    /\ Running
    /\ alive[w] = "live"
    /\ Len(entities[w]) + EntityRecordCount(file) <= MaxEntities
    /\ \E ub \in {"fault", "benign"} :
        LET r == load(file, entities[w], ub)
        IN  /\ entities' = [entities EXCEPT ![w] = r.ents]
            /\ last' = [op |-> "load", w |-> w, ret |-> r.ret, writeOk |-> FALSE,
                        ents |-> entities[w], pre |-> Pre(file, file),
                        saved |-> IF last.op = "save"
                                  THEN [some |-> TRUE,
                                        wrote |-> last.ret = "true" /\ last.writeOk,
                                        ents |-> last.ents]
                                  ELSE NoSaved,
                        size |-> Len(entities[w]), deleted |-> 0]
    /\ UNCHANGED <<lifecycle, aside>>
    /\ UNCHANGED <<alive, scripts, world, deleteMe, tick, startScripts,
                   doneScripts, log, file>>
    /\ UNCHANGED foreign

\* The files a run of save() and load() starts with: none; one that does
\* not parse; documents without a world root; an empty world root; a world
\* root with entity records and another element; a component record of an
\* unknown type; a field record without text.
PersistFiles ==
    {NoFile, Garbage,
     Doc(<<>>),
     Doc(<<Elem("other", <<>>)>>),
     Doc(<<Elem("world", <<>>)>>),
     Doc(<<Elem("world", <<Elem("entity", <<Elem("Name", <<Var("name", "n")>>)>>),
                           Elem("other", <<>>),
                           Elem("entity", <<>>)>>)>>),
     Doc(<<Elem("world", <<Elem("entity", <<Elem("Bogus", <<>>)>>)>>)>>),
     Doc(<<Elem("world", <<Elem("entity", <<Elem("Name", <<Var("name", "")>>)>>)>>)>>)}

\* One World has been constructed; the save path holds one of the files.
InitPersist ==
    /\ alive = [w \in Worlds |-> IF w = 1 THEN "live" ELSE "unborn"]
    /\ entities = [w \in Worlds |-> <<>>]
    /\ scripts = [w \in Worlds |-> {}]
    /\ world = [s \in ScriptFiles |-> NoWorld]
    /\ deleteMe = [s \in ScriptFiles |-> FALSE]
    /\ tick = IdleTick
    /\ startScripts = {}
    /\ doneScripts = <<>>
    /\ log = <<>>
    /\ file \in PersistFiles
    /\ last = NoCall
    /\ started = [s \in ScriptFiles |-> StartsAtConstruction]
    /\ addedDone = {}
    /\ stack = <<>>
    /\ functions = [n \in FunctionNames |-> NoCallable]
    /\ lua = NoLua
    /\ latest = [n \in FunctionNames |-> NoCallable]
    /\ released = {}
    /\ store = NoAssets
    /\ asset = NoLoad
    /\ around = NoQuery
    /\ foreign = {}

NextPersist ==
    \/ \E w \in Worlds : AddEntity(w)
    \/ \E w \in Worlds, e \in (0 - MaxEntities)..(MaxEntities - 1) : RemoveEntity(w, e)
    \/ \E w \in Worlds, i \in 1..MaxEntities, c \in ComponentTypes : AddComponent(w, i, c)
    \/ \E w \in Worlds, i \in 1..MaxEntities, c \in ComponentTypes :
        \E f \in {Fields(c)[k] : k \in 1..Len(Fields(c))} :
            \E v \in FieldValues(f) : SetField(w, i, c, f, v)
    \/ \E w \in Worlds : Save(w)
    \/ \E w \in Worlds : Load(w)

SpecPersist == InitPersist /\ [][NextPersist]_vars

\* ------------------------------------------------- specification SpecReload
\* The next World of the name is constructed once the one before it was
\* destroyed: one World at a time owns the save file.
Session(w) ==
    /\ \A v \in Worlds : alive[v] # "live"
    /\ Running
    /\ Construct(w)

\* No World has been constructed yet; the save path holds one of the files.
InitReload ==
    /\ alive = [w \in Worlds |-> "unborn"]
    /\ entities = [w \in Worlds |-> <<>>]
    /\ scripts = [w \in Worlds |-> {}]
    /\ world = [s \in ScriptFiles |-> NoWorld]
    /\ deleteMe = [s \in ScriptFiles |-> FALSE]
    /\ tick = IdleTick
    /\ startScripts = {}
    /\ doneScripts = <<>>
    /\ log = <<>>
    /\ file \in PersistFiles
    /\ last = NoCall
    /\ started = [s \in ScriptFiles |-> StartsAtConstruction]
    /\ addedDone = {}
    /\ stack = <<>>
    /\ functions = [n \in FunctionNames |-> NoCallable]
    /\ lua = NoLua
    /\ latest = [n \in FunctionNames |-> NoCallable]
    /\ released = {}
    /\ store = NoAssets
    /\ asset = NoLoad
    /\ around = NoQuery
    /\ foreign = {}

NextReload ==
    \/ \E w \in Worlds : Session(w)
    \/ \E w \in Worlds : Destroy(w)
    \/ \E w \in Worlds : AddEntity(w)
    \/ \E w \in Worlds, e \in (0 - MaxEntities)..(MaxEntities - 1) : RemoveEntity(w, e)
    \/ \E w \in Worlds, i \in 1..MaxEntities, c \in ComponentTypes : AddComponent(w, i, c)
    \/ \E w \in Worlds, i \in 1..MaxEntities, c \in ComponentTypes :
        \E f \in {Fields(c)[k] : k \in 1..Len(Fields(c))} :
            \E v \in FieldValues(f) : SetField(w, i, c, f, v)
    \/ \E w \in Worlds : Save(w)
    \/ \E w \in Worlds : Load(w)

SpecReload == InitReload /\ [][NextReload]_vars

\* --------------------------------------------------- specification SpecTick
\* One World has been constructed; no save file exists.
InitTick ==
    /\ alive = [w \in Worlds |-> IF w = 1 THEN "live" ELSE "unborn"]
    /\ entities = [w \in Worlds |-> <<>>]
    /\ scripts = [w \in Worlds |-> {}]
    /\ world = [s \in ScriptFiles |-> NoWorld]
    /\ deleteMe = [s \in ScriptFiles |-> FALSE]
    /\ tick = IdleTick
    /\ startScripts = {}
    /\ doneScripts = <<>>
    /\ log = <<>>
    /\ file = NoFile
    /\ last = NoCall
    /\ started = [s \in ScriptFiles |-> StartsAtConstruction]
    /\ addedDone = {}
    /\ stack = <<>>
    /\ functions = [n \in FunctionNames |-> NoCallable]
    /\ lua = NoLua
    /\ latest = [n \in FunctionNames |-> NoCallable]
    /\ released = {}
    /\ store = NoAssets
    /\ asset = NoLoad
    /\ around = NoQuery
    /\ foreign = {}

NextTick ==
    \/ \E w \in Worlds : AddEntity(w)
    \/ \E w \in Worlds, e \in (0 - MaxEntities)..(MaxEntities - 1) : RemoveEntity(w, e)
    \/ \E w \in Worlds, f \in ScriptFiles : AddScript(w, f)
    \/ \E w \in Worlds, f \in ScriptFiles : RemoveScript(w, f)
    \/ \E w \in Worlds : UpdateBegin(w)
    \/ UpdateEntity
    \/ UpdateScript
    \/ UpdateRemove
    \/ UpdateEnd

SpecTick == InitTick /\ [][NextTick]_vars

\* ------------------------------------------------ specification SpecAssets
\* An AssetManager with empty maps.
InitAssets == InitLua

NextAssets == \E path \in ResourceFiles, ok \in BOOLEAN : LoadResource(path, ok)

SpecAssets == InitAssets /\ [][NextAssets]_vars

\* ------------------------------------------------ specification SpecAround
\* The entity sequences queried: up to MaxEntities entities, each without a
\* Physical component or with one at a position inside the world.
AroundVariants ==
    {AroundEntity(0, FALSE, Point(0, 0))}
        \cup {AroundEntity(0, TRUE, Point(x, y)) : x, y \in 0..(GridMax - 1)}
AroundInputs ==
    {[i \in DOMAIN v |-> AroundEntity(i, v[i].physical, v[i].position)] :
        v \in UpTo(AroundVariants, MaxEntities)}

InitAround ==
    /\ alive = [w \in Worlds |-> "unborn"]
    /\ entities = [w \in Worlds |-> <<>>]
    /\ scripts = [w \in Worlds |-> {}]
    /\ world = [s \in ScriptFiles |-> NoWorld]
    /\ deleteMe = [s \in ScriptFiles |-> FALSE]
    /\ tick = IdleTick
    /\ startScripts = {}
    /\ doneScripts = <<>>
    /\ log = <<>>
    /\ file = NoFile
    /\ last = NoCall
    /\ started = [s \in ScriptFiles |-> StartsAtConstruction]
    /\ addedDone = {}
    /\ stack = <<>>
    /\ functions = [n \in FunctionNames |-> NoCallable]
    /\ lua = NoLua
    /\ latest = [n \in FunctionNames |-> NoCallable]
    /\ released = {}
    /\ store = NoAssets
    /\ asset = NoLoad
    /\ \E es \in AroundInputs : around = [NoQuery EXCEPT !.ents = es, !.after = es]
    /\ foreign = {}

NextAround ==
    \E x \in Coordinates, y \in Coordinates, radius \in Coordinates :
        GetEntitiesAround(Point(x, y), radius)

SpecAround == InitAround /\ [][NextAround]_vars

\* ------------------------------------------------ specification SpecAttach
\* The first two Worlds and the scripts they share: construction,
\* destruction, addScript/removeScript and update; entities are created by
\* scripts only, and no save file exists.
TwoWorlds == {w \in Worlds : w <= 2}

InitAttach == Init /\ file = NoFile

NextAttach ==
    \/ \E w \in TwoWorlds : Construct(w)
    \/ \E w \in TwoWorlds : Destroy(w)
    \/ \E w \in TwoWorlds, f \in ScriptFiles : AddScript(w, f)
    \/ \E w \in TwoWorlds, f \in ScriptFiles : RemoveScript(w, f)
    \/ \E w \in TwoWorlds : UpdateBegin(w)
    \/ UpdateEntity
    \/ UpdateScript
    \/ UpdateRemove
    \/ UpdateEnd

SpecAttach == InitAttach /\ [][NextAttach]_vars

\* ------------------------------------------------ specification SpecMapping
\* Two Worlds and the calls that change a script mapping from outside a
\* tick: construction, destruction, addScript() and removeScript().
NextMapping ==
    \/ \E w \in TwoWorlds : Construct(w)
    \/ \E w \in TwoWorlds : Destroy(w)
    \/ \E w \in TwoWorlds, f \in ScriptFiles : AddScript(w, f)
    \/ \E w \in TwoWorlds, f \in ScriptFiles : RemoveScript(w, f)

SpecMapping == InitAttach /\ [][NextMapping]_vars

\* ---------------------------------------------- specification SpecScenario
\* One World whose entities get components and field values between ticks,
\* as the example script gives its ship and the host its player.
NextScenario ==
    \/ \E w \in Worlds : AddEntity(w)
    \/ \E w \in Worlds, e \in (0 - MaxEntities)..(MaxEntities - 1) : RemoveEntity(w, e)
    \/ \E w \in Worlds, i \in 1..MaxEntities, c \in ComponentTypes : AddComponent(w, i, c)
    \/ \E w \in Worlds, i \in 1..MaxEntities, c \in ComponentTypes :
        \E f \in {Fields(c)[k] : k \in 1..Len(Fields(c))} :
            \E v \in FieldValues(f) : SetField(w, i, c, f, v)
    \/ \E w \in Worlds, f \in ScriptFiles : AddScript(w, f)
    \/ \E w \in Worlds, f \in ScriptFiles : RemoveScript(w, f)
    \/ \E w \in Worlds : UpdateBegin(w)
    \/ UpdateEntity
    \/ UpdateScript
    \/ UpdateRemove
    \/ UpdateEnd

SpecScenario == InitTick /\ [][NextScenario]_vars

\* -------------------------------------------- specification SpecScriptError
\* One iteration of the script loop in which the script's Update function
\* fails with a runtime error: the call made through Selection::operator()
\* raises the error outside any protected call. tick.phase becomes
\* "aborted" (the process is gone) or "thrown" (the error is leaving
\* World::update, which has no handler).
UpdateScriptFails ==
    /\ tick.phase = "scripts"
    /\ LET s == tick.i
       IN  /\ world' = [world EXCEPT ![s] = UpdateWorld(tick.w, @)]
           /\ log' = Append(log, Call("script", s))
    /\ \E panic \in {"returns", "throws"} :
            tick' = [tick EXCEPT !.phase = RaiseError(panic)]
    /\ UNCHANGED <<lifecycle, aside>>
    /\ UNCHANGED <<alive, entities, scripts, deleteMe, startScripts,
                   doneScripts, file, last>>
    /\ UNCHANGED foreign

\* The error leaves World::update: the rest of the script loop and the
\* removal loop are skipped.
UpdateUnwind ==
    /\ tick.phase = "thrown"
    /\ tick' = IdleTick
    /\ startScripts' = {}
    /\ doneScripts' = <<>>
    /\ log' = <<>>
    /\ UNCHANGED <<lifecycle, aside>>
    /\ UNCHANGED <<alive, entities, scripts, world, deleteMe, file, last>>
    /\ foreign' = {}

NextScriptError ==
    \/ \E w \in Worlds : AddEntity(w)
    \/ \E w \in Worlds, e \in (0 - MaxEntities)..(MaxEntities - 1) : RemoveEntity(w, e)
    \/ \E w \in Worlds, f \in ScriptFiles : AddScript(w, f)
    \/ \E w \in Worlds, f \in ScriptFiles : RemoveScript(w, f)
    \/ \E w \in Worlds : UpdateBegin(w)
    \/ UpdateEntity
    \/ UpdateScript
    \/ UpdateScriptFails
    \/ UpdateUnwind
    \/ UpdateRemove
    \/ UpdateEnd

SpecScriptError == InitTick /\ [][NextScriptError]_vars

\* ------------------------------------------------ properties of the tick
\* The positions of the log holding a call of the given kind / for id.
CallsOf(kind, id) == {k \in 1..Len(log) : log[k] = [kind |-> kind, id |-> id]}
KindCalls(kind) == {k \in 1..Len(log) : log[k].kind = kind}
SystemKinds == {"move", "physical", "draw"}
IsSystemCall(c) == c.kind \in SystemKinds
InDone(s) == \E k \in 1..Len(doneScripts) : doneScripts[k] = s
EntityLoopOver == tick.phase \in {"scripts", "remove", "done"}

\* C1: after a tick of World W in which script S of W's mapping was found
\* done, S is no longer in W's mapping and S's world pointer is null.
C1_DoneScriptDetached ==
    tick.phase = "done" =>
        \A s \in startScripts :
            InDone(s) => s \notin scripts[tick.w] /\ world[s] = NoWorld

\* C2: between operations, every script's world pointer is null or a live
\* World whose script mapping contains the script.
C2_WorldPointerListed ==
    Idle =>
        \A s \in ScriptFiles :
            \/ world[s] = NoWorld
            \/ alive[world[s]] = "live" /\ s \in scripts[world[s]]

\* C3: no script's world pointer is a destroyed World.
C3_NoDanglingWorld ==
    \A s \in ScriptFiles : world[s] # NoWorld => alive[world[s]] # "dead"

\* C8: in a tick every script of the mapping at the start of the tick is
\* updated exactly once, the mapping is unchanged until all of them were
\* updated, and the scripts removed at the end are exactly those whose Done
\* flag read true after their own update.
C8_UpdateOnceThenRemove ==
    /\ tick.phase # "idle" =>
        /\ \A s \in ScriptFiles : Cardinality(CallsOf("script", s)) <= 1
        /\ \A k \in KindCalls("script") : log[k].id \in startScripts
        /\ \A k \in KindCalls("remove") : \A j \in KindCalls("script") : j < k
    /\ tick.phase \in {"entities", "scripts"} => scripts[tick.w] = startScripts
    /\ tick.phase \in {"remove", "done"} =>
        \A s \in startScripts : Cardinality(CallsOf("script", s)) = 1
    /\ tick.phase = "done" =>
        /\ {log[k].id : k \in KindCalls("remove")} = {s \in startScripts : deleteMe[s]}
        /\ scripts[tick.w] = {s \in startScripts : ~deleteMe[s]}

\* Reached: a tick over two scripts ends with one removed and one kept.
C8_Witness ==
    /\ tick.phase = "done"
    /\ Cardinality(startScripts) >= 2
    /\ \E s \in startScripts : s \notin scripts[tick.w]
    /\ \E s \in startScripts : s \in scripts[tick.w]

\* C9: in a tick, the systems have updated every entity before the first
\* script update, and no system update follows a script update.
C9_SystemsBeforeScripts ==
    /\ EntityLoopOver =>
        \A i \in 1..tick.n : \A kind \in SystemKinds : CallsOf(kind, i) # {}
    /\ tick.phase = "entities" => KindCalls("script") = {}
    /\ \A j \in KindCalls("script") :
        \A k \in 1..Len(log) : IsSystemCall(log[k]) => k < j

\* Reached: a tick over two entities has updated a script.
C9_Witness ==
    /\ tick.phase = "done"
    /\ tick.n >= 2
    /\ KindCalls("script") # {}

\* C10 as stated: three passes, each over every entity, one after the other:
\* every movement update precedes every physical update, and every physical
\* update precedes every draw update.
C10_ThreePasses ==
    EntityLoopOver =>
        /\ \A i \in 1..tick.n : \A kind \in SystemKinds :
                Cardinality(CallsOf(kind, i)) = 1
        /\ \A j \in KindCalls("move") : \A k \in KindCalls("physical") : j < k
        /\ \A j \in KindCalls("physical") : \A k \in KindCalls("draw") : j < k

\* The system calls of one pass over entities 1..n that runs movement, then
\* physical, then draw on each entity in turn.
PerEntityOrder == <<"move", "physical", "draw">>
InterleavedCalls(n) ==
    [k \in 1..(3 * n) |->
        [kind |-> PerEntityOrder[((k - 1) % 3) + 1], id |-> ((k - 1) \div 3) + 1]]

\* C10 as amended: one pass over the entities in sequence order; on each
\* entity movement, physical and draw update run once, in that order, before
\* any update of the next entity.
C10_PerEntityOrder ==
    /\ tick.phase = "entities" =>
        SelectSeq(log, IsSystemCall) = InterleavedCalls(tick.i - 1)
    /\ EntityLoopOver =>
        SelectSeq(log, IsSystemCall) = InterleavedCalls(tick.n)

\* Reached: the entity loop of a tick has run over two entities.
C10_Witness == EntityLoopOver /\ tick.n >= 2 /\ Len(log) >= 6

\* C11: whatever addScript, removeScript, ticks, destructions and
\* attachments to another World have happened, every script has had start()
\* called on it exactly once, the call made at its construction.
C11_StartedOnce == \A s \in ScriptFiles : started[s] = StartsAtConstruction

\* Reached: a script whose Done flag a tick has set is in the mappings of
\* two Worlds, and attached to the one that added it last.
C11_Witness ==
    \E s \in ScriptFiles : \E v \in Worlds, w \in Worlds :
        /\ v # w
        /\ Idle
        /\ deleteMe[s]
        /\ s \in scripts[v]
        /\ s \in scripts[w]
        /\ world[s] = w

\* C12: addScript leaves the Done flag as it is: a script added to a World
\* with Done true still has it true until its own code resets it, and the
\* tick of a World that finds such a script in its mapping updates it once
\* and has removed it from the mapping when the tick ends.
C12_DoneCarriedOver ==
    /\ \A s \in addedDone : deleteMe[s]
    /\ tick.phase = "done" =>
        \A s \in startScripts \cap addedDone :
            /\ Cardinality(CallsOf("script", s)) = 1
            /\ s \notin scripts[tick.w]

\* Reached: a tick ends that found a script added with Done true, whose
\* code did not reset Done, with another script that stays.
C12_Witness ==
    /\ tick.phase = "done"
    /\ \E s \in startScripts \cap addedDone : s \notin scripts[tick.w]
    /\ scripts[tick.w] # {}

\* C13: a script function that fails with a runtime error inside a tick
\* does not abort the process, and when the error reaches the host every
\* script of the mapping has had its update call in that tick.
C13_ErrorContained ==
    /\ tick.phase # "aborted"
    /\ tick.phase = "thrown" =>
            \A s \in startScripts : CallsOf("script", s) # {}

\* C17: a step of the removal loop of a tick, and a removeScript() call,
\* leave every World's entity sequence as it is: the same entities, in the
\* same order, with the same components and field values.
C17_RemovalKeepsEntities ==
    [][(UpdateRemove \/ \E w \in Worlds, f \in ScriptFiles : RemoveScript(w, f))
            => entities' = entities]_vars

\* Reached: a tick has removed a done script from a World holding two
\* different entities with a Physical component, one named.
C17_Witness ==
    /\ tick.phase = "done"
    /\ \E s \in startScripts : s \notin scripts[tick.w]
    /\ Len(entities[tick.w]) = 2
    /\ \A k \in 1..2 : HasComponent(entities[tick.w][k], "Physical")
    /\ HasComponent(entities[tick.w][1], "Name")
    /\ entities[tick.w][1] # entities[tick.w][2]

\* ------------------------------------------------ properties of Selection
\* C14: after any sequence of assignments of host callables to names, the
\* FunctionsMap entry of every name assigned to is the callable assigned to
\* it last, and every callable assigned to it earlier has been destroyed.
C14_LatestRegistered ==
    \A n \in FunctionNames :
        latest[n] # NoCallable =>
            /\ functions[n] = latest[n]
            /\ latest[n] \notin released

\* C15: a call that returned yields the unnamed Selection with index 0 when
\* the function returned no value, and otherwise a Selection whose index
\* addresses the first of the values this call returned, whatever the stack
\* held before the call.
C15_SelectionOfReturns ==
    (lua.op = "call" /\ lua.outcome = "returned") =>
        IF lua.rets = <<>>
        THEN lua.sel = NoSelection
        ELSE /\ lua.sel.index = 0 - Len(lua.rets)
             /\ Addressed(stack, lua.sel) = Len(stack) - Len(lua.rets) + 1

\* -------------------------------------------- properties of save and load
\* The call made last was op, and its World still exists.
Called(op) == last.op = op /\ alive[last.w] = "live"

\* C4: a load() into a fresh World that directly follows a save() of a World
\* of the same name yields that World's entities: as many, in the same
\* order, with the same components and field values.
C4_RoundTrip ==
    (Called("load") /\ last.saved.some /\ last.ents = <<>>) =>
        entities[last.w] = last.saved.ents

\* C5: a save() whose destination could not be opened (the file did not
\* load) or written (the medium refused the write) returns false and leaves
\* the World's entities and script mapping as they were.
C5_SaveFailureReported ==
    (Called("save") /\ (~last.pre.ok \/ ~last.writeOk)) =>
        /\ last.ret = "false"
        /\ entities[last.w] = last.ents

\* The save() call made last wrote its document.
Wrote == Called("save") /\ last.ret = "true" /\ last.writeOk

\* The children of the first world root of the file.
RootChildren == file.top[FirstChildElement(file.top, "world")].kids

\* A component element holds exactly the fields of component comp, each
\* once, with its value as text.
HoldsComponent(el, comp) ==
    /\ Len(el.kids) = Cardinality(DOMAIN comp)
    /\ \A k \in 1..Len(el.kids) :
        /\ el.kids[k].tag \in DOMAIN comp
        /\ el.kids[k].text = comp[el.kids[k].tag]
        /\ \A j \in 1..Len(el.kids) : el.kids[j].tag = el.kids[k].tag => j = k

\* An element is the entity record of entity e: tagged "entity", with
\* exactly one child per component of e, tagged with its type.
HoldsEntity(el, e) ==
    /\ el.tag = "entity"
    /\ Len(el.kids) = Cardinality(DOMAIN e)
    /\ \A k \in 1..Len(el.kids) :
        /\ el.kids[k].tag \in DOMAIN e
        /\ HoldsComponent(el.kids[k], e[el.kids[k].tag])
        /\ \A j \in 1..Len(el.kids) : el.kids[j].tag = el.kids[k].tag => j = k

\* C6: after a save() that wrote its document, whatever the file held
\* before, the document has a world root whose children are exactly one
\* entity record per entity of the World, in entity order; and a save() that
\* directly follows such a save() of the same entities leaves the same file.
C6_SaveReplaces ==
    Wrote =>
        /\ LoadFileOk(file)
        /\ FirstChildElement(file.top, "world") # 0
        /\ Len(RootChildren) = Len(entities[last.w])
        /\ \A k \in 1..Len(RootChildren) :
                HoldsEntity(RootChildren[k], entities[last.w][k])
        /\ (last.saved.wrote /\ last.saved.ents = last.ents) => last.pre.same

\* Reached: a save() of a World with an entity holding a component wrote
\* over a document whose root held other entity records.
C6_Witness ==
    /\ Wrote
    /\ last.pre.root
    /\ last.pre.records = 2
    /\ Len(last.ents) = 1
    /\ DOMAIN last.ents[1] # {}

\* C7: a load() of a file that does not parse or has no world root returns
\* false and leaves the World's entities and their components as they were.
C7_LoadFailure ==
    (Called("load") /\ ~(last.pre.ok /\ last.pre.root)) =>
        /\ last.ret = "false"
        /\ entities[last.w] = last.ents

\* Reached: load() was called on a World holding an entity with a component
\* when the file parsed but had no world root.
C7_Witness ==
    /\ Called("load")
    /\ last.pre.ok
    /\ ~last.pre.root
    /\ last.ents # <<>>
    /\ DOMAIN last.ents[1] # {}

\* ------------------------------------------ properties of the entity sequence
\* C16: a removeEntity() that removed an entity destroyed it: the entities
\* the World held before the call are as many as those it holds now and
\* the one the call deleted, so none is out of the sequence and not
\* destroyed.
C16_RemovedDestroyed ==
    (Called("removeEntity") /\ last.ret = "true") =>
        /\ last.deleted = 1
        /\ last.size = Len(entities[last.w]) + last.deleted

\* Every field record of every entity record of the file has a text.
TextsPresent ==
    \A i \in 1..Len(RootChildren) :
        \A j \in 1..Len(RootChildren[i].kids) :
            ~NullText(RootChildren[i].kids[j])

\* C19: a load() of a parseable document with a world root whose field
\* records all have a text returns true or false, whatever the type names
\* of its component records: it does not fault on a component that
\* add(name) did not create.
C19_AbsentComponentNotFatal ==
    (Called("load") /\ last.pre.ok /\ last.pre.root /\ TextsPresent) =>
        last.ret \in {"true", "false"}

\* The entity records of the file, in document order.
FileRecords == SelectSeq(RootChildren, IsEntityElement)

\* The component types an entity record names that add(name) creates.
RecordComponents(r) ==
    {r.kids[i].tag : i \in 1..Len(r.kids)} \cap ComponentTypes

\* C24: a load() that returns true on a World holding k entities, of a
\* document with N entity records, leaves the k entities as they were and
\* appends N entities after them, the j-th with the components of the j-th
\* record; a second successful load() right after the first leaves the
\* k entities of before the first followed by 2N.
C24_LoadAdditive ==
    [][\A w \in Worlds :
        (last'.op = "load" /\ last'.w = w /\ last'.ret = "true" /\ Load(w)) =>
            LET k == Len(entities[w])
                N == Len(FileRecords)
                es == entities'[w]
            IN  /\ Len(es) = k + N
                /\ SubSeq(es, 1, k) = entities[w]
                /\ \A j \in 1..N :
                        DOMAIN es[k + j] = RecordComponents(FileRecords[j])
                /\ (last.op = "load" /\ last.w = w /\ last.ret = "true") =>
                        /\ Len(es) = last.size + 2 * N
                        /\ SubSeq(es, 1, last.size) = last.ents]_vars

\* Reached: a load() of a one-record document returned true on a World
\* that held one entity with a component, and the World now holds two, the
\* old one first and one like it after.
C24_Witness ==
    /\ Called("load")
    /\ last.ret = "true"
    /\ last.pre.records = 1
    /\ Len(last.ents) = 1
    /\ DOMAIN last.ents[1] # {}
    /\ Len(entities[last.w]) = 2
    /\ entities[last.w][1] = last.ents[1]
    /\ DOMAIN entities[last.w][2] = DOMAIN last.ents[1]

\* C25: a save() on a save path whose file is missing or does not parse
\* returns false and leaves the path as it was, so no save() creates a
\* missing file; a save() on a path whose file parses returns true whether
\* the write succeeded or not.
C25_SaveNeedsDocument ==
    [][\A w \in Worlds :
        (last'.op = "save" /\ last'.w = w /\ Save(w)) =>
            IF LoadFileOk(file)
            THEN last'.ret = "true"
            ELSE last'.ret = "false" /\ file' = file]_vars

\* Reached: two save() calls in a row on a World holding an entity with a
\* component, the medium accepting writes, and still no file at the path.
C25_Witness ==
    /\ Called("save")
    /\ last.saved.some
    /\ last.writeOk
    /\ last.ret = "false"
    /\ ~file.exists
    /\ last.ents # <<>>
    /\ DOMAIN last.ents[1] # {}

\* C23: when update() of a World has run its script loop (removal pending or
\* update about to return), every script still in the mapping of that World
\* has that World as its world pointer, whatever the pointer was before.
C23_ReattachedByUpdate ==
    tick.phase \in {"remove", "done"} =>
        \A s \in scripts[tick.w] : world[s] = tick.w

\* update() is about to return and a script whose pointer was null or another
\* World when the tick began is still in the mapping, re-attached; and a live
\* World other than the updated one lists such a script as well.
C23_Witness ==
    /\ tick.phase = "done"
    /\ \E s \in foreign \cap scripts[tick.w] : world[s] = tick.w
    /\ \E v \in Worlds : v # tick.w /\ alive[v] = "live" /\ scripts[v] \cap foreign # {}

\* The sequence s without its k-th element.
Without(s, k) == SubSeq(s, 1, k - 1) \o SubSeq(s, k + 1, Len(s))

\* C21: removeEntity(e) on a World with n entities removes the entity at
\* index e when 0 <= e < n and the one at index n+e when -n <= e < 0,
\* returns true and keeps the other entities in their order; for any other
\* e it returns false and leaves the entity sequence as it was.
C21_RemoveEntityExact ==
    [][\A w \in Worlds : \A e \in (0 - MaxEntities)..(MaxEntities - 1) :
        RemoveEntity(w, e) =>
            LET n == Len(entities[w])
            IN  IF 0 <= e /\ e < n
                THEN last'.ret = "true" /\ entities'[w] = Without(entities[w], e + 1)
                ELSE IF 0 - n <= e /\ e < 0
                THEN last'.ret = "true" /\ entities'[w] = Without(entities[w], n + e + 1)
                ELSE last'.ret = "false" /\ entities' = entities]_vars

\* Reached: removeEntity() removed one of two different entities and left
\* the one that has a component.
C21_Witness ==
    /\ Called("removeEntity")
    /\ last.ret = "true"
    /\ last.size = 2
    /\ Len(entities[last.w]) = 1
    /\ DOMAIN entities[last.w][1] # {}

\* C22: addScript(f) returns true exactly when f is not in the World's
\* mapping, and then f is inserted and the script's world is this World;
\* when f is in the mapping it returns false and leaves the mapping and the
\* script's world as they are. removeScript(f) returns true exactly when f
\* is in the mapping, and afterwards f is not in the mapping.
C22_ScriptMappingCalls ==
    [][\A w \in Worlds : \A f \in ScriptFiles :
        /\ (f \in scripts'[w] /\ AddScript(w, f)) =>
                IF f \notin scripts[w]
                THEN /\ addScriptRet(scripts[w], f)
                     /\ scripts' = [scripts EXCEPT ![w] = @ \cup {f}]
                     /\ world'[f] = w
                ELSE /\ ~addScriptRet(scripts[w], f)
                     /\ scripts' = scripts
                     /\ world' = world
        /\ (f \notin scripts'[w] /\ RemoveScript(w, f)) =>
                /\ removeScriptRet(scripts[w], f) <=> f \in scripts[w]
                /\ scripts' = [scripts EXCEPT ![w] = @ \ {f}]]_vars

\* Reached: a script that no tick has found done is in the mappings of two
\* Worlds and attached to one of them, so that addScript() of it on the
\* other returns false.
C22_Witness ==
    \E s \in ScriptFiles : \E v \in Worlds, w \in Worlds :
        /\ v # w
        /\ Idle
        /\ ~deleteMe[s]
        /\ s \in scripts[v]
        /\ s \in scripts[w]
        /\ world[s] = w

\* ------------------------------------------------ properties of the assets
\* C18: after a loadResource() that returned false no map of the store has
\* an entry keyed by the file, and every entry of every map was loaded
\* successfully.
C18_FailedLoadLeavesNoEntry ==
    /\ (asset.op = "load" /\ ~asset.ret) =>
            \A m \in AssetMaps : store[m][asset.file] = "none"
    /\ \A m \in AssetMaps : \A f \in ResourceFiles : store[m][f] \in {"none", "loaded"}

\* Reached: loading a script file failed while the store holds another
\* script that was loaded.
C18_Witness ==
    /\ asset.op = "load"
    /\ ~asset.ret
    /\ MapOf(Branch(asset.file)) = "scripts"
    /\ \E f \in ResourceFiles : store["scripts"][f] = "loaded"

\* ------------------------------------------- properties of getEntitiesAround
\* C20: getEntitiesAround(pos, radius) returns no entity when pos is
\* outside of [0,size.x) x [0,size.y) or radius <= 0; otherwise it returns
\* the entities that have a Physical component at distance <= radius from
\* pos, all of them and no other, in the order of the entity sequence; and
\* the entity sequence is as it was.
C20_AroundExact ==
    around.called =>
        /\ around.after = around.ents
        /\ IF Outside(around.pos, WorldSize) \/ around.radius <= 0
           THEN around.result = <<>>
           ELSE around.result =
                    SelectSeq(around.ents,
                        LAMBDA e : e.physical /\
                            DistanceSquared(e.position, around.pos)
                                <= around.radius * around.radius)

\* Reached: a query inside the world with a positive radius returned an
\* entity at distance exactly radius, and left out an entity with a
\* Physical component farther away and an entity without one.
C20_Witness ==
    /\ around.called
    /\ ~Outside(around.pos, WorldSize)
    /\ around.radius > 0
    /\ \E k \in 1..Len(around.result) :
            DistanceSquared(around.result[k].position, around.pos)
                = around.radius * around.radius
    /\ \E k \in 1..Len(around.ents) :
            /\ around.ents[k].physical
            /\ \A j \in 1..Len(around.result) : around.result[j] # around.ents[k]
====
